---- MODULE Spec2Model ----
\* Model of the OpenConnect progress-callback shim
\* (Sources/COpenConnect/COpenConnect.c): progress_shim_callback formats a
\* variadic message with two vsnprintf passes into a malloc'ed buffer and
\* forwards it to the externally defined progressCallback.
EXTENDS Integers, Sequences, FiniteSets, TLC

\* ---------------------------------------------------------------- bounds
MaxCalls == 2
NumThreads == 2
HeapSize == 2

\* ------------------------------------------------------------- constants
NULL == 0

Addrs == 1 .. HeapSize

\* Byte values that are not characters of a message.
NUL == "NUL"
Uninit == "??"

\* ------------------------------------------------- variadic arguments
\* One variadic argument as the caller pushed it: an int (%d), a char
\* string (%s) or a wide string (%ls) that may hold an unconvertible
\* character.
IntArg(n) == [tag |-> "int", num |-> n, str |-> <<>>, valid |-> TRUE]
StrArg(s) == [tag |-> "str", num |-> 0, str |-> s, valid |-> TRUE]
WideArg(s, ok) == [tag |-> "wide", num |-> 0, str |-> s, valid |-> ok]
\* What a read past the last argument yields.
GarbageArg == [tag |-> "garbage", num |-> 0, str |-> <<Uninit>>, valid |-> TRUE]

\* The format strings the library passes, by address; address 0 is NULL.
StrTab ==
  << <<>>,
     <<"%","s"," ","h","a","s"," ","%","d"," ","i","t","e","m","s">>,
     <<"%","d","%","%">>,
     <<"%","l","s">> >>

\* The calls the external library makes: context, level, format, arguments.
Inputs ==
  { [privdata |-> 1, level |-> 2, fmt |-> NULL, argv |-> <<>>],
    [privdata |-> 2, level |-> 0, fmt |-> 1, argv |-> <<>>],
    [privdata |-> 1, level |-> 2, fmt |-> 2,
       argv |-> <<StrArg(<<"c","a","r","t">>), IntArg(3)>>],
    [privdata |-> 2, level |-> 2, fmt |-> 3, argv |-> <<IntArg(-42)>>],
    [privdata |-> 1, level |-> 0, fmt |-> 4,
       argv |-> <<WideArg(<<"x">>, FALSE)>>] }

\* ---------------------------------------------------------- vsnprintf
Digits == <<"0","1","2","3","4","5","6","7","8","9">>

RECURSIVE DecNat(_)
DecNat(n) ==
  IF n < 10 THEN <<Digits[n + 1]>>
  ELSE DecNat(n \div 10) \o <<Digits[(n % 10) + 1]>>

\* %d
Dec(n) == IF n < 0 THEN <<"-">> \o DecNat(0 - n) ELSE DecNat(n)

\* va_arg(ap, T) at position p of the argument list.
VaArg(argv, p) == IF p \in 1 .. Len(argv) THEN argv[p] ELSE GarbageArg

\* The formatting engine shared by both vsnprintf passes: walks the format
\* from index i, takes arguments from cursor position p, and yields the
\* complete output, the cursor position reached and whether a conversion
\* failed (encoding error).
RECURSIVE Format(_, _, _, _)
Format(f, i, argv, p) ==
  IF i > Len(f) THEN [text |-> <<>>, pos |-> p, err |-> FALSE]
  ELSE IF f[i] # "%" THEN
    LET r == Format(f, i + 1, argv, p)
    IN  [r EXCEPT !.text = <<f[i]>> \o @]
  ELSE IF i + 1 > Len(f) THEN [text |-> <<>>, pos |-> p, err |-> TRUE]
  ELSE IF f[i + 1] = "%" THEN
    LET r == Format(f, i + 2, argv, p)
    IN  [r EXCEPT !.text = <<"%">> \o @]
  ELSE IF f[i + 1] = "d" THEN
    LET r == Format(f, i + 2, argv, p + 1)
    IN  [r EXCEPT !.text = Dec(VaArg(argv, p).num) \o @]
  ELSE IF f[i + 1] = "s" THEN
    LET r == Format(f, i + 2, argv, p + 1)
    IN  [r EXCEPT !.text = VaArg(argv, p).str \o @]
  ELSE IF f[i + 1] = "l" /\ i + 2 <= Len(f) /\ f[i + 2] = "s" THEN
    IF ~VaArg(argv, p).valid
    THEN [text |-> <<>>, pos |-> p + 1, err |-> TRUE]
    ELSE LET r == Format(f, i + 3, argv, p + 1)
         IN  [r EXCEPT !.text = VaArg(argv, p).str \o @]
  ELSE [text |-> <<>>, pos |-> p, err |-> TRUE]

Min(a, b) == IF a < b THEN a ELSE b

\* vsnprintf(s, n, fmt, ap): ret is the length the complete output has (or
\* negative on a conversion failure); out is what is stored through s, at
\* most n - 1 characters and a terminator (nothing when n = 0); pos is where
\* the cursor ap is left.
Vsnprintf(n, fmt, argv, p) ==
  LET r == IF fmt = NULL THEN [text |-> <<>>, pos |-> p, err |-> TRUE]
           ELSE Format(StrTab[fmt], 1, argv, p)
  IN  [ret |-> IF r.err THEN -1 ELSE Len(r.text),
       out |-> IF r.err \/ n = 0 THEN <<>>
               ELSE SubSeq(r.text, 1, Min(Len(r.text), n - 1)) \o <<NUL>>,
       pos |-> r.pos]

\* ------------------------------------------------------------- state
\* frames     : the activations of progress_shim_callback, in call order;
\*              each holds the parameters and locals of one invocation
\*              (privdata, level, fmt, argv, args, args_copy, size, buffer)
\*              and its position pc. History kept with it: call (what the
\*              library passed), request (bytes asked of malloc), wrote
\*              (bytes the second pass stored) and trace (statements
\*              executed).
\* heap       : malloc's arena.
\* handler    : the host side's registered-handler slot.
\* dispatched : the calls made to progressCallback, in order.
\* handlerLog : the invocations of the registered handler, in order.
VARIABLES frames, heap, handler, dispatched, handlerLog

vars == <<frames, heap, handler, dispatched, handlerLog>>

NoHandler == "none"
Handlers == {"H"}

FreeCell == [live |-> FALSE, owner |-> 0, data |-> <<>>]
NoCursor == [st |-> "unset", pos |-> 0, walks |-> 0, ends |-> 0]

Ids == 1 .. Len(frames)
Running(i) == frames[i].pc # "returned"

Init ==
  /\ frames = <<>>
  /\ heap = [a \in Addrs |-> FreeCell]
  /\ handler = NoHandler
  /\ dispatched = <<>>
  /\ handlerLog = <<>>

\* The frame i after executing statement ev and moving to pc.
Advance(f, pc, ev) == [f EXCEPT !.pc = pc, !.trace = Append(@, ev)]

\* The string a reader of the char pointer a sees: the bytes before the
\* first terminator.
RECURSIVE CStrFrom(_, _)
CStrFrom(data, k) ==
  IF k > Len(data) THEN <<Uninit>>
  ELSE IF data[k] = NUL THEN <<>>
  ELSE <<data[k]>> \o CStrFrom(data, k + 1)

CStr(a) == IF a \in Addrs /\ heap[a].live THEN CStrFrom(heap[a].data, 1)
           ELSE <<Uninit>>

\* ------------------------------------------------------ host registry
\* register(handler): stores the handler in the slot, which starts unset.
Register(h) ==
  /\ handler # h
  /\ handler' = h
  /\ UNCHANGED <<frames, heap, dispatched, handlerLog>>

\* Mutant of progressCallback: the slot is used without looking whether it
\* is set.
progressCallbackUnguarded(privdata, level, formatted_message) ==
  handlerLog' = Append(handlerLog, [handler |-> handler, privdata |-> privdata,
                                    level |-> level, text |-> formatted_message])

\* progressCallback(privdata, level, formatted_message), defined on the host
\* side: looks the handler up at call time and invokes it, or does nothing.
progressCallback(privdata, level, formatted_message) ==
  handlerLog' =
    IF handler = NoHandler THEN handlerLog
    ELSE Append(handlerLog, [handler |-> handler, privdata |-> privdata,
                             level |-> level, text |-> formatted_message])

\* ------------------------------------------- progress_shim_callback
\* return;
Return(f) == Advance(f, "returned", "return")

\* Mutant of FmtIsNull: the null check is missing.
FmtIsNullUnchecked(fmt) == FALSE

\* fmt == NULL
FmtIsNull(fmt) == fmt = NULL

\* The external library calls the shim with in, on a thread of its own
\* choosing; at most NumThreads invocations run at a time. The function
\* begins with if (fmt == NULL) { return; }
Call(in) ==
  /\ Len(frames) < MaxCalls
  /\ Cardinality({i \in Ids : Running(i)}) < NumThreads
  /\ LET f == [privdata |-> in.privdata, level |-> in.level,
               fmt |-> in.fmt, argv |-> in.argv,
               args |-> NoCursor, args_copy |-> NoCursor,
               size |-> 0, buffer |-> NULL,
               request |-> 0, wrote |-> 0,
               call |-> in,
               pc |-> "entry", trace |-> <<>>]
     IN  frames' = Append(frames,
           IF FmtIsNull(f.fmt) THEN Return(f)
           ELSE Advance(f, "measure", "fmt_ok"))
  /\ UNCHANGED <<heap, handler, dispatched, handlerLog>>

\* va_start(args, fmt);
VaStart(f) ==
  Advance([f EXCEPT !.args = [st |-> "live", pos |-> 1, walks |-> 0,
                              ends |-> 0]],
          f.pc, "va_start")

\* va_copy(args_copy, args);
VaCopy(f) == Advance([f EXCEPT !.args_copy = f.args], f.pc, "va_copy")

\* A cursor after a vsnprintf pass has walked it to position p.
Walked(c, p) == [c EXCEPT !.pos = p, !.walks = @ + 1]

\* Mutant of Measure: the measuring pass walks args itself, not the copy.
MeasureWithArgs(f) ==
  LET r == Vsnprintf(0, f.fmt, f.argv, f.args.pos)
  IN  Advance([f EXCEPT !.size = r.ret, !.args = Walked(f.args, r.pos)],
              f.pc, "measure")

\* int size = vsnprintf(NULL, 0, fmt, args_copy);
Measure(f) ==
  LET r == Vsnprintf(0, f.fmt, f.argv, f.args_copy.pos)
  IN  Advance([f EXCEPT !.size = r.ret,
                        !.args_copy = Walked(f.args_copy, r.pos)],
              f.pc, "measure")

Ended(c) == [c EXCEPT !.st = "ended", !.ends = @ + 1]

\* va_end(args_copy);
VaEndCopy(f) ==
  Advance([f EXCEPT !.args_copy = Ended(f.args_copy)], f.pc, "va_end_copy")

\* va_end(args);
VaEnd(f) == Advance([f EXCEPT !.args = Ended(f.args)], f.pc, "va_end")

\* Mutant of SizeIsNegative: the result of the measurement is not checked.
SizeIsNegativeUnchecked(size) == FALSE

\* Mutant of SizeIsNegative: an empty message is treated as a failure.
SizeNotPositive(size) == size <= 0

\* size < 0
SizeIsNegative(size) == size < 0

\* The first pass: va_start, va_copy, the measuring vsnprintf, va_end of the
\* copy, and if (size < 0) { va_end(args); return; }
MeasurePass(i) ==
  /\ frames[i].pc = "measure"
  /\ LET f == VaEndCopy(Measure(VaCopy(VaStart(frames[i]))))
     IN  frames' = [frames EXCEPT ![i] =
           IF SizeIsNegative(f.size) THEN Return(VaEnd(f))
           ELSE Advance(f, "malloc", "size_ok")]
  /\ UNCHANGED <<heap, handler, dispatched, handlerLog>>

\* The number of bytes requested: size + 1 for the null terminator.
MallocSize(size) == size + 1

\* Mutant of MallocResults: one fixed block serves every invocation.
MallocResultsStatic == {1}

\* What malloc may return: NULL, or a block that is not in use.
MallocResults == {NULL} \cup {b \in Addrs : ~heap[b].live}

\* char *buffer = (char *)malloc(size + 1);
\* if (buffer == NULL) { va_end(args); return; }
Malloc(i) ==
  /\ frames[i].pc = "malloc"
  /\ \E a \in MallocResults :
       LET f == Advance([frames[i] EXCEPT
                           !.buffer = a,
                           !.request = MallocSize(frames[i].size)],
                        "malloc", "malloc")
       IN  /\ frames' = [frames EXCEPT ![i] =
                IF a = NULL THEN Return(VaEnd(f))
                ELSE Advance(f, "write", "buffer_ok")]
           /\ heap' = IF a = NULL THEN heap
                      ELSE [heap EXCEPT ![a] =
                             [live |-> TRUE, owner |-> i,
                              data |-> [k \in 1 .. f.request |-> Uninit]]]
  /\ UNCHANGED <<handler, dispatched, handlerLog>>

\* Mutant of WriteLimit: no room is counted for the terminator.
WriteLimitNoTerminator(size) == size

\* The bound given to the second pass: size + 1.
WriteLimit(size) == size + 1

\* The bytes of a block after out is stored at its start.
Store(data, out) ==
  [k \in 1 .. Len(data) |-> IF k <= Len(out) THEN out[k] ELSE data[k]]

\* vsnprintf(buffer, size + 1, fmt, args); va_end(args);
Write(i) ==
  /\ frames[i].pc = "write"
  /\ LET f == frames[i]
         r == Vsnprintf(WriteLimit(f.size), f.fmt, f.argv, f.args.pos)
         g == Advance([f EXCEPT !.args = Walked(f.args, r.pos),
                                !.wrote = Len(r.out)],
                      f.pc, "write")
     IN  /\ frames' = [frames EXCEPT ![i] = Advance(VaEnd(g), "dispatch", "write_done")]
         /\ heap' = [heap EXCEPT ![f.buffer].data = Store(@, r.out)]
  /\ UNCHANGED <<handler, dispatched, handlerLog>>

\* Mutant of DispatchArgs: the level is not forwarded.
DispatchArgsLevelDropped(f) ==
  [privdata |-> f.privdata, level |-> 0, buffer |-> f.buffer]

\* The arguments of the call progressCallback(privdata, level, buffer).
DispatchArgs(f) ==
  [privdata |-> f.privdata, level |-> f.level, buffer |-> f.buffer]

\* Mutant of Dispatch: the newest message is put ahead of the earlier ones.
DispatchOutOfOrder(i) ==
  /\ frames[i].pc = "dispatch"
  /\ LET a == DispatchArgs(frames[i])
     IN  /\ dispatched' = <<[id |-> i, privdata |-> a.privdata,
                             level |-> a.level, text |-> CStr(a.buffer)]>>
                           \o dispatched
         /\ progressCallback(a.privdata, a.level, CStr(a.buffer))
  /\ frames' = [frames EXCEPT ![i] = Advance(frames[i], "free", "dispatch")]
  /\ UNCHANGED <<heap, handler>>

\* progressCallback(privdata, level, buffer);
Dispatch(i) ==
  /\ frames[i].pc = "dispatch"
  /\ LET a == DispatchArgs(frames[i])
     IN  /\ dispatched' = Append(dispatched,
              [id |-> i, privdata |-> a.privdata, level |-> a.level,
               text |-> CStr(a.buffer)])
         /\ progressCallback(a.privdata, a.level, CStr(a.buffer))
  /\ frames' = [frames EXCEPT ![i] = Advance(frames[i], "free", "dispatch")]
  /\ UNCHANGED <<heap, handler>>

\* Mutant of Free: the function returns without releasing the buffer.
FreeSkipped(i) ==
  /\ frames[i].pc = "free"
  /\ frames' = [frames EXCEPT ![i] = Return(frames[i])]
  /\ UNCHANGED <<heap, handler, dispatched, handlerLog>>

\* free(buffer); and the function returns.
Free(i) ==
  /\ frames[i].pc = "free"
  /\ heap' = [heap EXCEPT ![frames[i].buffer] = FreeCell]
  /\ frames' = [frames EXCEPT ![i] = Return(Advance(frames[i], "free", "free"))]
  /\ UNCHANGED <<handler, dispatched, handlerLog>>

Next ==
  \/ \E h \in Handlers : Register(h)
  \/ \E in \in Inputs : Call(in)
  \/ \E i \in Ids : MeasurePass(i)
  \/ \E i \in Ids : Malloc(i)
  \/ \E i \in Ids : Write(i)
  \/ \E i \in Ids : Dispatch(i)
  \/ \E i \in Ids : Free(i)

Spec == Init /\ [][Next]_vars

TypeOK ==
  /\ handler \in Handlers \cup {NoHandler}
  /\ \A i \in Ids : frames[i].buffer \in Addrs \cup {NULL}

\* --------------------------------------------------- reading the history
Has(i, ev) == \E k \in DOMAIN frames[i].trace : frames[i].trace[k] = ev
Count(i, ev) ==
  Cardinality({k \in DOMAIN frames[i].trace : frames[i].trace[k] = ev})
\* Statement b was executed directly after statement a.
Follows(i, a, b) ==
  \E k \in 1 .. Len(frames[i].trace) - 1 :
    frames[i].trace[k] = a /\ frames[i].trace[k + 1] = b
Returned(i) == frames[i].pc = "returned"
\* The positions in dispatched of the calls invocation i made.
DispatchesOf(i) == {k \in DOMAIN dispatched : dispatched[k].id = i}
\* The blocks of the arena that invocation i allocated and still holds.
BlocksOf(i) == {a \in Addrs : heap[a].live /\ heap[a].owner = i}
MeasureOk(i) == Has(i, "size_ok")
AllocOk(i) == Has(i, "buffer_ok")

\* The reference formatter: what the C library's printf family produces for
\* each call of Inputs that formats without error, written out by hand.
RefFormat(in) ==
  CASE in.fmt = 1 -> <<>>
    [] in.fmt = 2 ->
         <<"c","a","r","t"," ","h","a","s"," ","3"," ","i","t","e","m","s">>
    [] in.fmt = 3 -> <<"-","4","2","%">>
    [] OTHER -> <<"no reference">>

\* ------------------------------------------------------------- claims

\* C1: every invocation with a non-null format in which measurement and
\* allocation succeed calls progressCallback exactly once before it returns,
\* with the context pointer and the level the shim was called with; no
\* invocation ever calls it more than once.
C1_HandlerCalledOnceWithSameArgs ==
  \A i \in Ids :
    /\ Cardinality(DispatchesOf(i)) <= 1
    /\ \A k \in DispatchesOf(i) :
         /\ dispatched[k].privdata = frames[i].call.privdata
         /\ dispatched[k].level = frames[i].call.level
    /\ (Returned(i) /\ frames[i].call.fmt # NULL /\ MeasureOk(i) /\ AllocOk(i))
         => Cardinality(DispatchesOf(i)) = 1

C1_Witness ==
  \E i \in Ids :
    /\ Returned(i) /\ MeasureOk(i) /\ AllocOk(i)
    /\ frames[i].call.fmt = 2
    /\ \E k \in DispatchesOf(i) :
         dispatched[k].privdata = 1 /\ dispatched[k].level = 2

\* C2: an invocation with a null format returns at once: progressCallback
\* is not called, nothing is measured, nothing is allocated and no argument
\* cursor is started.
C2_NullFormatIsNoOp ==
  \A i \in Ids :
    frames[i].call.fmt = NULL =>
      /\ Returned(i)
      /\ DispatchesOf(i) = {}
      /\ frames[i].trace = <<"return">>
      /\ frames[i].args.st = "unset" /\ frames[i].args_copy.st = "unset"
      /\ frames[i].buffer = NULL /\ BlocksOf(i) = {}

C2_Witness ==
  \E i \in Ids :
    frames[i].call.fmt = NULL /\ Returned(i) /\ dispatched # <<>>

\* C3: while no handler is registered a call of progressCallback invokes no
\* handler and changes nothing else, and the shim goes on to release its
\* buffer as usual.
C3_UnsetHandlerIsNoOp ==
  [][\A i \in Ids :
       (frames[i].pc = "dispatch" /\ frames'[i].pc # "dispatch"
          /\ handler = NoHandler)
         => /\ handlerLog' = handlerLog
            /\ handler' = handler
            /\ heap' = heap
            /\ frames'[i].pc = "free"]_vars

C3_Witness ==
  \E i \in Ids :
    /\ Returned(i) /\ DispatchesOf(i) # {}
    /\ handlerLog = <<>> /\ handler = NoHandler
    /\ \A a \in Addrs : ~heap[a].live

\* C4: the text handed to progressCallback is the reference formatter's
\* text for the same format and arguments, untruncated: the block requested
\* is the measured length plus one, and the second pass stores exactly that
\* many bytes, the text followed by the terminator.
C4_TextEqualsReference ==
  /\ \A k \in DOMAIN dispatched :
       dispatched[k].text = RefFormat(frames[dispatched[k].id].call)
  /\ \A i \in Ids :
       /\ Has(i, "malloc") =>
            /\ frames[i].size = Len(RefFormat(frames[i].call))
            /\ frames[i].request = frames[i].size + 1
       /\ \A a \in BlocksOf(i) : Len(heap[a].data) = frames[i].size + 1
       /\ Has(i, "write") =>
            /\ frames[i].wrote = frames[i].size + 1
            /\ \A a \in BlocksOf(i) :
                 heap[a].data = RefFormat(frames[i].call) \o <<NUL>>

C4_Witness ==
  \E k \in DOMAIN dispatched :
    /\ dispatched[k].text =
         <<"c","a","r","t"," ","h","a","s"," ","3"," ","i","t","e","m","s">>
    /\ frames[dispatched[k].id].request = 17

\* C5: when an invocation has returned it holds no block; a block that was
\* allocated is released exactly once, after progressCallback has returned;
\* on the paths without a block (null format, failed measurement, failed
\* allocation) nothing is released.
C5_BufferReleasedOnEveryPath ==
  \A i \in Ids :
    /\ Count(i, "free") <= 1
    /\ Has(i, "free") =>
         AllocOk(i) /\ Follows(i, "dispatch", "free")
    /\ Cardinality(BlocksOf(i)) <= 1
    /\ Returned(i) =>
         /\ BlocksOf(i) = {}
         /\ Count(i, "free") = IF AllocOk(i) THEN 1 ELSE 0

C5_Witness ==
  /\ \E i \in Ids : Returned(i) /\ Count(i, "free") = 1
  /\ \E i \in Ids : Returned(i) /\ MeasureOk(i) /\ ~AllocOk(i)
                      /\ Count(i, "free") = 0

\* C6: when the measurement reports a negative length, or malloc returns
\* NULL, the invocation returns normally without calling progressCallback
\* and without a formatting write.
C6_FailuresAbortSilently ==
  \A i \in Ids :
    LET failed == \/ (Has(i, "measure") /\ frames[i].size < 0)
                  \/ (Has(i, "malloc") /\ frames[i].buffer = NULL)
    IN  failed =>
          /\ Returned(i)
          /\ frames[i].trace[Len(frames[i].trace)] = "return"
          /\ DispatchesOf(i) = {}
          /\ ~Has(i, "write") /\ frames[i].wrote = 0
          /\ ~Has(i, "free") /\ BlocksOf(i) = {}

C6_Witness ==
  /\ \E i \in Ids : Returned(i) /\ Has(i, "measure") /\ frames[i].size < 0
  /\ \E i \in Ids : Returned(i) /\ Has(i, "malloc") /\ frames[i].buffer = NULL

\* C7 as stated: an invocation whose formatted result has length 0 always
\* allocates a one-byte buffer and calls progressCallback exactly once with
\* the empty string.
C7_Original ==
  \A i \in Ids :
    (Returned(i) /\ Has(i, "measure") /\ frames[i].size = 0) =>
      /\ AllocOk(i)
      /\ \E k \in DispatchesOf(i) : dispatched[k].text = <<>>

\* C7 as amended: an invocation whose formatted result has length 0 is not
\* skipped for being empty: it asks malloc for one byte and, unless that
\* allocation fails, calls progressCallback exactly once with the empty
\* string.
C7_EmptyMessageDelivered ==
  \A i \in Ids :
    (Has(i, "measure") /\ frames[i].size = 0) =>
      /\ frames[i].pc # "malloc" => Has(i, "malloc") /\ frames[i].request = 1
      /\ \A a \in BlocksOf(i) : Len(heap[a].data) = 1
      /\ (Returned(i) /\ frames[i].buffer # NULL) =>
           /\ Cardinality(DispatchesOf(i)) = 1
           /\ \A k \in DispatchesOf(i) : dispatched[k].text = <<>>

C7_Witness ==
  \E i \in Ids :
    /\ Returned(i) /\ frames[i].size = 0 /\ frames[i].request = 1
    /\ \E k \in DispatchesOf(i) : dispatched[k].text = <<>>

\* C8: the calls of progressCallback are neither reordered nor held back:
\* the log of calls only ever grows at its end, by one call, made by an
\* invocation that is in flight and is at its progressCallback statement in
\* that very step, with that invocation's own message; and an invocation
\* that formatted a message has made its call by the time it returns. So the
\* calls of invocations the library makes one after another come in the
\* library's order.
C8_NoReorderingNoBuffering ==
  /\ [](\A i \in Ids :
         (Returned(i) /\ MeasureOk(i) /\ AllocOk(i)) => DispatchesOf(i) # {})
  /\ [][dispatched' # dispatched =>
          \E i \in Ids :
            /\ frames[i].pc = "dispatch" /\ frames'[i].pc = "free"
            /\ dispatched' = Append(dispatched,
                 [id |-> i, privdata |-> frames[i].call.privdata,
                  level |-> frames[i].call.level,
                  text |-> RefFormat(frames[i].call)])]_vars

C8_Witness ==
  /\ Len(dispatched) = 2
  /\ dispatched[1].id = 1 /\ dispatched[2].id = 2
  /\ dispatched[1].text # dispatched[2].text
  /\ Returned(1) /\ Returned(2)

\* C9: no argument cursor is walked more than once and every cursor that
\* was started is ended exactly once by the time the invocation returns: the
\* measuring pass walks only the copy, the writing pass walks only the
\* original, which is still at the first argument; the copy is ended right
\* after the measurement, the original on both failure paths and, on the
\* success path, before progressCallback is called.
C9_CursorDiscipline ==
  \A i \in Ids :
    LET f == frames[i]
    IN  /\ f.args.walks <= 1 /\ f.args_copy.walks <= 1
        /\ f.args.ends <= 1 /\ f.args_copy.ends <= 1
        /\ Count(i, "va_end") = f.args.ends
        /\ Count(i, "va_end_copy") = f.args_copy.ends
        /\ Has(i, "measure") =>
             /\ f.args_copy.walks = 1
             /\ Follows(i, "va_start", "va_copy")
             /\ Follows(i, "va_copy", "measure")
             /\ Follows(i, "measure", "va_end_copy")
        /\ (Has(i, "measure") /\ ~Has(i, "write")) =>
             f.args.walks = 0 /\ f.args.pos = 1
        /\ Has(i, "write") =>
             /\ f.args.walks = 1
             /\ Follows(i, "write", "va_end")
        /\ Has(i, "dispatch") =>
             /\ Follows(i, "va_end", "write_done")
             /\ Follows(i, "write_done", "dispatch")
        /\ Returned(i) =>
             /\ f.args.st \in {"unset", "ended"}
             /\ f.args_copy.st \in {"unset", "ended"}
             /\ Has(i, "va_start") => f.args.ends = 1 /\ f.args_copy.ends = 1

C9_Witness ==
  /\ \E i \in Ids : Returned(i) /\ Has(i, "dispatch")
                      /\ frames[i].args.walks = 1 /\ frames[i].args.pos = 3
                      /\ frames[i].args.ends = 1
                      /\ frames[i].args_copy.ends = 1
  /\ \E i \in Ids : Returned(i) /\ Has(i, "measure") /\ ~Has(i, "write")
                      /\ frames[i].args.walks = 0
                      /\ frames[i].args.ends = 1
                      /\ frames[i].args_copy.ends = 1

\* C10: however the invocations interleave, each call of progressCallback
\* carries the context, level and text of its own invocation; a block
\* belongs to exactly one invocation from malloc to free and holds that
\* invocation's text from the write on; and once no invocation is in flight
\* the arena is as it was at the start.
C10_InvocationsAreIsolated ==
  /\ \A k \in DOMAIN dispatched :
       LET in == frames[dispatched[k].id].call
       IN  /\ dispatched[k].privdata = in.privdata
           /\ dispatched[k].level = in.level
           /\ dispatched[k].text = RefFormat(in)
  /\ \A i \in Ids :
       /\ frames[i].pc \in {"write", "dispatch", "free"} =>
            BlocksOf(i) = {frames[i].buffer}
       /\ frames[i].pc \in {"dispatch", "free"} =>
            heap[frames[i].buffer].data = RefFormat(frames[i].call) \o <<NUL>>
  /\ \A i, j \in Ids :
       (i # j /\ frames[i].pc \in {"write", "dispatch", "free"}
              /\ frames[j].pc \in {"write", "dispatch", "free"})
         => frames[i].buffer # frames[j].buffer
  /\ \A a \in Addrs : heap[a].live => Running(heap[a].owner)
  /\ (\A i \in Ids : Returned(i)) => heap = [a \in Addrs |-> FreeCell]

C10_Witness ==
  \E i, j \in Ids :
    /\ i # j
    /\ frames[i].pc = "free" /\ frames[j].pc = "dispatch"
    /\ frames[i].call.privdata # frames[j].call.privdata
    /\ CStr(frames[i].buffer) # CStr(frames[j].buffer)

====
